---- MODULE Spec2Model ----
(***************************************************************************)
(* A model of ament_ikos/main.py: scanning a directory tree for IKOS       *)
(* marker files, running the analyzer and the report tool once per marker, *)
(* and merging the per-target JUnit XML reports into one aggregate report. *)
(*                                                                         *)
(* Text is modelled structurally.  A file name is the sequence of its      *)
(* dot-separated components ("x.junit.xml" is <<"x","junit","xml">>), a    *)
(* path is a flag (absolute or not) and the sequence of its segments, and  *)
(* str(path) is the sequence of its segments with a separator token       *)
(* between them.  A decimal integer attribute is the sequence of its       *)
(* digits.  A time attribute is a decimal text with an integer and a       *)
(* fractional digit sequence; the float it denotes is kept as a whole      *)
(* number of quarter seconds, values for which float addition is exact.    *)
(***************************************************************************)
EXTENDS Integers, Sequences, FiniteSets, TLC

VARIABLES env, junit, marker_files, pc, idx, ikos_db_files, agg, out, calls, ret

vars == <<env, junit, marker_files, pc, idx, ikos_db_files, agg, out, calls, ret>>

(* -------- bounds ------------------------------------------------------- *)

\* The largest number of marker files the scanned tree holds.
MaxMarkers == 3

(* -------- names and paths ---------------------------------------------- *)

IKOS_MARKER_FILE_EXT == "ikosbin"

IKOS_DB_FILE_EXT == "ikosdb"

\* The path separator as a token of str(path).
SEP == <<"/">>

\* A directory or file name without a dot.
Seg(s) == <<s>>

CMakeFilesSeg == Seg("CMakeFiles")

PathOf(a, ps) == [abs |-> a, parts |-> ps]

\* pathlib's "/" operator: a path below directory d.
JoinPath(d, rel) == [abs |-> d.abs, parts |-> d.parts \o rel]

RECURSIVE Interleave(_)
Interleave(ps) ==
    IF Len(ps) = 0 THEN <<>>
    ELSE IF Len(ps) = 1 THEN <<ps[1]>>
    ELSE <<ps[1], SEP>> \o Interleave(Tail(ps))

\* str(path): the tokens of the path's text.
StrOfPath(p) ==
    IF p.parts = <<>>
    THEN (IF p.abs THEN <<SEP>> ELSE <<Seg(".")>>)
    ELSE (IF p.abs THEN <<SEP>> ELSE <<>>) \o Interleave(p.parts)

\* Python's "needle in hay" on token sequences.
Contains(hay, needle) ==
    \E s \in 1..(Len(hay) - Len(needle) + 1) :
        SubSeq(hay, s, s + Len(needle) - 1) = needle

\* The rank of a name component in string order (ASCII: upper case first).
RankOf(c) ==
    CASE c = "CMakeFiles" -> 1
      [] c = "a" -> 2
      [] c = "b" -> 3
      [] c = "build" -> 4
      [] c = "c" -> 5
      [] c = "ikosbin" -> 6
      [] c = "ikosdb" -> 7
      [] c = "w" -> 8
      [] c = "ws" -> 9
      [] c = "x" -> 10
      [] c = "y" -> 11
      [] c = "z" -> 12

RECURSIVE NameLess(_, _)
NameLess(m, n) ==
    IF Len(m) = 0 THEN Len(n) > 0
    ELSE IF Len(n) = 0 THEN FALSE
    ELSE IF RankOf(m[1]) # RankOf(n[1]) THEN RankOf(m[1]) < RankOf(n[1])
    ELSE NameLess(Tail(m), Tail(n))

RECURSIVE PartsLess(_, _)
PartsLess(ps, qs) ==
    IF Len(ps) = 0 THEN Len(qs) > 0
    ELSE IF Len(qs) = 0 THEN FALSE
    ELSE IF ps[1] # qs[1] THEN NameLess(ps[1], qs[1])
    ELSE PartsLess(Tail(ps), Tail(qs))

\* pathlib's ordering of two paths with the same anchor: part by part.
PathLess(p, q) == PartsLess(p.parts, q.parts)

RECURSIVE SortedPaths(_)
SortedPaths(S) ==
    IF S = {} THEN <<>>
    ELSE LET m == CHOOSE p \in S : \A q \in S \ {p} : PathLess(p, q)
         IN  <<m>> \o SortedPaths(S \ {m})

\* Path.glob('**/*' + IKOS_MARKER_FILE_EXT) over the files below directory d.
GlobMarkers(d, tree) ==
    { JoinPath(d, rel) : rel \in
        { r \in tree : /\ Len(r[Len(r)]) > 1
                       /\ r[Len(r)][Len(r[Len(r)])] = IKOS_MARKER_FILE_EXT } }

remove_cmake_compiler_test_files(path) ==
    IF Contains(StrOfPath(path), <<SEP, CMakeFilesSeg, SEP>>) THEN FALSE ELSE TRUE

scan_marker_files(d, tree) ==
    SelectSeq(SortedPaths(GlobMarkers(d, tree)), remove_cmake_compiler_test_files)

\* os.path.splitext(p)[0]: the path without its last extension.
SplitExtRoot(p) ==
    LET n == Len(p.parts)
        last == p.parts[n]
    IN  IF Len(last) > 1
        THEN [p EXCEPT !.parts[n] = SubSeq(last, 1, Len(last) - 1)]
        ELSE p

\* p + '.' + ext, on the text of p.
AddExt(p, exts) == [p EXCEPT !.parts[Len(p.parts)] = @ \o exts]

\* os.path.basename of a path's text.
BaseName(p) == IF p.parts = <<>> THEN Seg(".") ELSE p.parts[Len(p.parts)]

(* -------- text of numbers ---------------------------------------------- *)

\* str(n) of a natural number: its decimal digits.
RECURSIVE StrOfNat(_)
StrOfNat(n) == IF n < 10 THEN <<n>> ELSE Append(StrOfNat(n \div 10), n % 10)

\* int(s) of a digit sequence.
RECURSIVE IntOfStr(_)
IntOfStr(s) ==
    IF Len(s) = 0 THEN 0
    ELSE 10 * IntOfStr(SubSeq(s, 1, Len(s) - 1)) + s[Len(s)]

DecimalText(i, f) == [int |-> i, frac |-> f]

\* float(t) of a decimal text, in quarter seconds.
FloatOfStr(t) ==
    4 * IntOfStr(t.int) +
    (CASE t.frac = <<0>> -> 0
       [] t.frac = <<2, 5>> -> 1
       [] t.frac = <<5>> -> 2
       [] t.frac = <<7, 5>> -> 3)

\* str(q) of a float given in quarter seconds: always with a fractional part.
StrOfFloat(q) ==
    DecimalText(StrOfNat(q \div 4),
                CASE q % 4 = 0 -> <<0>>
                  [] q % 4 = 1 -> <<2, 5>>
                  [] q % 4 = 2 -> <<5>>
                  [] q % 4 = 3 -> <<7, 5>>)

(* -------- XML elements ------------------------------------------------- *)

\* An element without summary attributes (a test case, a failure record).
Leaf(tag, children) == [tag |-> tag, children |-> children]

Failure == Leaf("failure", <<>>)

TestCase(children) == Leaf("testcase", children)

\* A <testsuite> root as the report tool writes it.
TestSuite(name, tests, errors, failures, time, children) ==
    [tag |-> "testsuite",
     attrib |-> [name |-> name, tests |-> tests, errors |-> errors,
                 failures |-> failures, time |-> time],
     children |-> children]

RECURSIVE SumSeq(_)
SumSeq(s) == IF s = <<>> THEN 0 ELSE Head(s) + SumSeq(Tail(s))

\* CountFailures with the path './failure': the children only.
CountChildFailures(elem) ==
    Len(SelectSeq(elem.children, LAMBDA c : c.tag = "failure"))

\* len(root.findall('.//failure')): the failure nodes among all descendants.
RECURSIVE CountFailures(_)
CountFailures(elem) ==
    SumSeq([j \in 1..Len(elem.children) |->
              (IF elem.children[j].tag = "failure" THEN 1 ELSE 0)
              + CountFailures(elem.children[j])])

\* The reports the report tool may write for a target.  ReportA is the IKOS
\* miscount: the summary says 1 failure, the document holds 2.
ReportA ==
    TestSuite(Seg("ikos"), <<5>>, <<0>>, <<1>>, DecimalText(<<0>>, <<2, 5>>),
              <<TestCase(<<Failure>>), TestCase(<<Failure>>)>>)

ReportB ==
    TestSuite(Seg("ikos"), <<1, 2>>, <<1>>, <<0>>, DecimalText(<<1>>, <<5>>),
              <<TestCase(<<>>)>>)

ReportC ==
    TestSuite(Seg("ikos"), <<7>>, <<3>>, <<3>>, DecimalText(<<0>>, <<7, 5>>),
              <<TestCase(<<Failure, Failure>>),
                Leaf("testsuite", <<TestCase(<<Failure>>)>>)>>)

Reports == {ReportA, ReportB, ReportC}

NoElem == Leaf("none", <<>>)

\* What a file holds.
Absent == [kind |-> "absent", root |-> NoElem]

Malformed == [kind |-> "malformed", root |-> NoElem]

Empty == [kind |-> "empty", root |-> NoElem]

Old == [kind |-> "old", root |-> NoElem]

Xml(root) == [kind |-> "xml", root |-> root]

Unchanged == [kind |-> "unchanged", root |-> NoElem]

(* -------- the environment of a run ------------------------------------- *)

\* The directory argument: /ws, the current directory, and build.
Directories ==
    {PathOf(TRUE, <<Seg("ws")>>), PathOf(FALSE, <<>>), PathOf(FALSE, <<Seg("build")>>)}

\* Marker files a tree may hold, relative to the scanned directory; the last
\* two lie below a CMakeFiles directory.
MarkerCandidates ==
    { <<Seg("a"), <<"x", IKOS_MARKER_FILE_EXT>> >>,
      <<Seg("b"), <<"y", IKOS_MARKER_FILE_EXT>> >>,
      <<Seg("b"), <<"w", IKOS_MARKER_FILE_EXT>> >>,
      <<CMakeFilesSeg, <<"c", IKOS_MARKER_FILE_EXT>> >>,
      <<Seg("a"), CMakeFilesSeg, <<"z", IKOS_MARKER_FILE_EXT>> >> }

\* A file of every tree that is no marker file.
OtherFiles == { <<Seg("a"), <<"x", IKOS_DB_FILE_EXT>> >> }

Trees ==
    { T \cup OtherFiles : T \in { U \in SUBSET MarkerCandidates : Cardinality(U) <= MaxMarkers } }

Envs ==
    [directory : Directories, tree : Trees, xunit_file : BOOLEAN,
     sarif_file : BOOLEAN, out0 : {Absent, Old}]

\* json.load of a marker file: the build step names the bitcode file and the
\* executable next to the marker.
MarkerData(m) ==
    [bc |-> AddExt(SplitExtRoot(m), <<"bc">>), exe |-> SplitExtRoot(m)]

\* data['exe'] + IKOS_DB_FILE_EXT
DbPath(m) == AddExt(MarkerData(m).exe, <<IKOS_DB_FILE_EXT>>)

\* os.path.splitext(db)[0] + '.' + format_ext
ReportFilename(db, format_ext) == AddExt(SplitExtRoot(db), format_ext)

JunitFilename(db) == ReportFilename(db, <<"junit", "xml">>)

SarifFilename(db) == ReportFilename(db, <<"sarif">>)

\* The per-target report files a run may touch.
JunitPaths(e) == { JunitFilename(DbPath(m)) : m \in GlobMarkers(e.directory, e.tree) }

IdleAgg ==
    [children |-> <<>>, total_tests |-> 0, total_errors |-> 0,
     total_failures |-> 0, total_time |-> 0, k |-> 0]

Init ==
    /\ env \in Envs
    /\ junit \in [JunitPaths(env) -> {Absent, Malformed, Xml(ReportB)}]
    /\ marker_files = <<>>
    /\ pc = "scan"
    /\ idx = 0
    /\ ikos_db_files = <<>>
    /\ agg = IdleAgg
    /\ out = env.out0
    /\ calls = <<>>
    /\ ret = "running"

(* -------- main: scan --------------------------------------------------- *)

\* MainScan without the early return on an empty scan.
MainScanNoReturn ==
    /\ pc = "scan"
    /\ marker_files' = scan_marker_files(env.directory, env.tree)
    /\ pc' = "loop"
    /\ idx' = 1
    /\ UNCHANGED <<env, junit, ikos_db_files, agg, out, calls, ret>>

\* main, lines 188-191: scan, and return 0 at once when nothing was found.
MainScan ==
    /\ pc = "scan"
    /\ marker_files' = scan_marker_files(env.directory, env.tree)
    /\ IF marker_files' = <<>>
       THEN /\ pc' = "done"
            /\ ret' = "0"
            /\ idx' = idx
       ELSE /\ pc' = "loop"
            /\ ret' = ret
            /\ idx' = 1
    /\ UNCHANGED <<env, junit, ikos_db_files, agg, out, calls>>

(* -------- process_marker_file ------------------------------------------ *)

CurDb == DbPath(marker_files[idx])

IkosCall(bc, db, rc) == [tool |-> "ikos", args |-> <<bc, db>>, fmt |-> "no", rc |-> rc]

ReportCall(a, fmt) == [tool |-> "ikos-report", args |-> a, fmt |-> fmt]

\* Where process_marker_file goes after the stdout report.
AfterStdout == IF env.xunit_file THEN "junit" ELSE IF env.sarif_file THEN "sarif" ELSE "collect"

AfterJunit == IF env.sarif_file THEN "sarif" ELSE "collect"

\* RunIkos with the stdout report run whatever the analyzer's exit status.
RunIkosReportAnyway ==
    /\ pc = "loop"
    /\ idx <= Len(marker_files)
    /\ \E rc \in {0, 1} :
         calls' = Append(calls, IkosCall(MarkerData(marker_files[idx]).bc, CurDb, rc))
    /\ pc' = "stdout"
    /\ UNCHANGED <<env, junit, marker_files, idx, ikos_db_files, agg, out, ret>>

\* run_ikos for the next marker; on a non-zero exit the target is skipped.
RunIkos ==
    /\ pc = "loop"
    /\ idx <= Len(marker_files)
    /\ \E rc \in {0, 1} :
         /\ calls' = Append(calls, IkosCall(MarkerData(marker_files[idx]).bc, CurDb, rc))
         /\ IF rc # 0
            THEN pc' = "loop" /\ idx' = idx + 1
            ELSE pc' = "stdout" /\ idx' = idx
    /\ UNCHANGED <<env, junit, marker_files, ikos_db_files, agg, out, ret>>

\* generate_ikos_stdout: the exit status is ignored.
GenerateIkosStdout ==
    /\ pc = "stdout"
    /\ \E rc \in {0, 1} :
         calls' = Append(calls, ReportCall(<<CurDb>>, "stdout"))
    /\ pc' = AfterStdout
    /\ UNCHANGED <<env, junit, marker_files, idx, ikos_db_files, agg, out, ret>>

\* generate_ikos_report(db, 'junit', 'junit.xml'): the tool writes a report,
\* or fails and leaves the file as it was or broken; the exit status is ignored.
GenerateJunitReport ==
    /\ pc = "junit"
    /\ \E w \in {Xml(r) : r \in Reports} \cup {Malformed, Unchanged} :
         junit' = IF w.kind = "unchanged" THEN junit
                  ELSE [junit EXCEPT ![JunitFilename(CurDb)] = w]
    /\ calls' = Append(calls, ReportCall(<<JunitFilename(CurDb), CurDb>>, "junit"))
    /\ pc' = AfterJunit
    /\ UNCHANGED <<env, marker_files, idx, ikos_db_files, agg, out, ret>>

\* generate_ikos_report(db, 'sarif', 'sarif')
GenerateSarifReport ==
    /\ pc = "sarif"
    /\ \E rc \in {0, 1} :
         calls' = Append(calls, ReportCall(<<SarifFilename(CurDb), CurDb>>, "sarif"))
    /\ pc' = "collect"
    /\ UNCHANGED <<env, junit, marker_files, idx, ikos_db_files, agg, out, ret>>

\* CollectResult inserting at the front.
CollectResultFront(files, db) == <<db>> \o files

\* ikos_db_files.append(result)
CollectResult(files, db) == Append(files, db)

\* process_marker_file returns the database path and main collects it.
Collect ==
    /\ pc = "collect"
    /\ ikos_db_files' = CollectResult(ikos_db_files, CurDb)
    /\ idx' = idx + 1
    /\ pc' = "loop"
    /\ UNCHANGED <<env, junit, marker_files, agg, out, calls, ret>>

(* -------- main: after the loop ----------------------------------------- *)

AggregateCall(name, files) == [tool |-> name, args |-> files, fmt |-> "aggregate"]

\* f'{os.path.basename(args.directory)}.ikos'
TestName == BaseName(env.directory) \o <<"ikos">>

\* All markers are processed: on to the output files.
LoopExit ==
    /\ pc = "loop"
    /\ idx > Len(marker_files)
    /\ pc' = "output"
    /\ UNCHANGED <<env, junit, marker_files, idx, ikos_db_files, agg, out, calls, ret>>

(* -------- aggregate_junit_xml_files ------------------------------------ *)

\* WantsJunit skipping the aggregation when nothing was collected.
WantsJunitNonEmpty == env.xunit_file /\ ikos_db_files # <<>>

\* main, line 201: if args.xunit_file
WantsJunit == env.xunit_file

\* AggOpen leaving the output file alone until the document is written.
AggOpenKeep ==
    /\ pc = "output"
    /\ WantsJunit
    /\ agg' = [IdleAgg EXCEPT !.k = 1]
    /\ calls' = Append(calls, AggregateCall("aggregate_junit_xml_files", ikos_db_files))
    /\ pc' = "agg_loop"
    /\ UNCHANGED <<env, junit, marker_files, idx, ikos_db_files, out, ret>>

\* The output file is opened for writing, which creates or truncates it,
\* before any report is read.
AggOpen ==
    /\ pc = "output"
    /\ WantsJunit
    /\ out' = Empty
    /\ agg' = [IdleAgg EXCEPT !.k = 1]
    /\ calls' = Append(calls, AggregateCall("aggregate_junit_xml_files", ikos_db_files))
    /\ pc' = "agg_loop"
    /\ UNCHANGED <<env, junit, marker_files, idx, ikos_db_files, ret>>

\* No test report was requested.
SkipJunit ==
    /\ pc = "output"
    /\ ~WantsJunit
    /\ pc' = "agg_sarif"
    /\ UNCHANGED <<env, junit, marker_files, idx, ikos_db_files, agg, out, calls, ret>>

\* CorrectRoot without the failure recount.
CorrectRootNameOnly(root, db) ==
    [root EXCEPT !.attrib.name = BaseName(SplitExtRoot(db))]

\* The root of a per-target report with its name replaced by the program
\* name and its failures attribute by the number of failure nodes.
CorrectRoot(root, db) ==
    [root EXCEPT !.attrib.name = BaseName(SplitExtRoot(db)),
                 !.attrib.failures = StrOfNat(CountFailures(root))]

\* One turn of the loop over a report that parsed.
Accumulate(a, root) ==
    [a EXCEPT !.total_tests = @ + IntOfStr(root.attrib.tests),
              !.total_errors = @ + IntOfStr(root.attrib.errors),
              !.total_failures = @ + IntOfStr(root.attrib.failures),
              !.total_time = @ + FloatOfStr(root.attrib.time),
              !.children = Append(@, root),
              !.k = @ + 1]

\* AggStep passing over a report that is missing or malformed.
AggStepSkip ==
    /\ pc = "agg_loop"
    /\ agg.k <= Len(ikos_db_files)
    /\ LET db == ikos_db_files[agg.k]
           f  == junit[JunitFilename(db)]
       IN  IF f.kind # "xml"
           THEN agg' = [agg EXCEPT !.k = @ + 1]
           ELSE agg' = Accumulate(agg, CorrectRoot(f.root, db))
    /\ UNCHANGED <<env, junit, marker_files, idx, ikos_db_files, out, calls, pc, ret>>

\* One turn of the loop: ET.parse raises on a missing or malformed report,
\* the exception leaves the function and main, and the file is closed empty.
AggStep ==
    /\ pc = "agg_loop"
    /\ agg.k <= Len(ikos_db_files)
    /\ LET db == ikos_db_files[agg.k]
           f  == junit[JunitFilename(db)]
       IN  IF f.kind # "xml"
           THEN /\ ret' = "raised"
                /\ pc' = "done"
                /\ agg' = agg
           ELSE /\ agg' = Accumulate(agg, CorrectRoot(f.root, db))
                /\ pc' = pc
                /\ ret' = ret
    /\ UNCHANGED <<env, junit, marker_files, idx, ikos_db_files, out, calls>>

\* The <testsuites> element with its summary attributes.
TopElement(a, name) ==
    [tag |-> "testsuites",
     attrib |-> [name |-> name,
                 tests |-> StrOfNat(a.total_tests),
                 errors |-> StrOfNat(a.total_errors),
                 failures |-> StrOfNat(a.total_failures),
                 time |-> StrOfFloat(a.total_time)],
     children |-> a.children]

\* After the loop the summary attributes are set and the document written.
AggWrite ==
    /\ pc = "agg_loop"
    /\ agg.k > Len(ikos_db_files)
    /\ out' = Xml(TopElement(agg, TestName))
    /\ pc' = "agg_sarif"
    /\ UNCHANGED <<env, junit, marker_files, idx, ikos_db_files, agg, calls, ret>>

\* MainFinish with the exit status telling of failed analyses.
MainFinishStatus ==
    /\ pc = "agg_sarif"
    /\ calls' = IF env.sarif_file
                THEN Append(calls, AggregateCall("aggregate_sarif_files", ikos_db_files))
                ELSE calls
    /\ ret' = IF Len(ikos_db_files) < Len(marker_files) THEN "1" ELSE "0"
    /\ pc' = "done"
    /\ UNCHANGED <<env, junit, marker_files, idx, ikos_db_files, agg, out>>

\* aggregate_sarif_files does nothing; main returns 0.
MainFinish ==
    /\ pc = "agg_sarif"
    /\ calls' = IF env.sarif_file
                THEN Append(calls, AggregateCall("aggregate_sarif_files", ikos_db_files))
                ELSE calls
    /\ ret' = "0"
    /\ pc' = "done"
    /\ UNCHANGED <<env, junit, marker_files, idx, ikos_db_files, agg, out>>

Next ==
    \/ MainScan
    \/ RunIkos
    \/ GenerateIkosStdout
    \/ GenerateJunitReport
    \/ GenerateSarifReport
    \/ Collect
    \/ LoopExit
    \/ AggOpen
    \/ SkipJunit
    \/ AggStep
    \/ AggWrite
    \/ MainFinish

Spec == Init /\ [][Next]_vars

(* -------- properties --------------------------------------------------- *)

\* The aggregate report has been written to the output path.
Written == out.kind = "xml"

\* The per-target report the aggregator reads for the j-th collected database.
InputFile(j) == junit[JunitFilename(ikos_db_files[j])]

\* What each report of Reports declares, in numbers, and the failure nodes it
\* really holds (time in quarter seconds).
Declared(r) ==
    CASE r = ReportA -> [tests |-> 5, errors |-> 0, time |-> 1, nodes |-> 2]
      [] r = ReportB -> [tests |-> 12, errors |-> 1, time |-> 6, nodes |-> 0]
      [] r = ReportC -> [tests |-> 7, errors |-> 3, time |-> 3, nodes |-> 3]

InputSums ==
    LET d(j) == Declared(InputFile(j).root)
        n == Len(ikos_db_files)
    IN  [tests |-> SumSeq([j \in 1..n |-> d(j).tests]),
         errors |-> SumSeq([j \in 1..n |-> d(j).errors]),
         time |-> SumSeq([j \in 1..n |-> d(j).time]),
         nodes |-> SumSeq([j \in 1..n |-> d(j).nodes])]

\* C1: the written top-level element carries the sums of the declared tests,
\* errors and time of the N reports it was given, and as failures the number
\* of failure nodes the reports hold, whatever their failures attributes say.
C1_AggregateSums ==
    Written =>
        /\ out.root.attrib.tests = StrOfNat(InputSums.tests)
        /\ out.root.attrib.errors = StrOfNat(InputSums.errors)
        /\ out.root.attrib.failures = StrOfNat(InputSums.nodes)
        /\ FloatOfStr(out.root.attrib.time) = InputSums.time

\* Two or more reports were merged, one of them with the miscounted summary.
C1_Witness ==
    /\ Written
    /\ Len(ikos_db_files) >= 2
    /\ \E j \in 1..Len(ikos_db_files) : InputFile(j).root = ReportA
    /\ \E j \in 1..Len(ikos_db_files) : InputFile(j).root = ReportC

\* The children appended so far, or written, agree with the failure nodes of
\* the report each was parsed from.
ChildrenCorrected(children) ==
    \A j \in 1..Len(children) :
        children[j].attrib.failures = StrOfNat(Declared(InputFile(j).root).nodes)

\* C2: every per-target root in the aggregate, while it is built and once it
\* is written, has its failures attribute equal to the number of failure
\* nodes nested in it, and the running failures total is the sum of these
\* corrected values, never of the tool's own.
C2_ChildFailuresCorrected ==
    /\ pc = "agg_loop" =>
         /\ ChildrenCorrected(agg.children)
         /\ agg.total_failures =
              SumSeq([j \in 1..Len(agg.children) |-> IntOfStr(agg.children[j].attrib.failures)])
    /\ Written => ChildrenCorrected(out.root.children)

\* A child whose report declared another number of failures than it holds.
C2_Witness ==
    /\ Written
    /\ \E j \in 1..Len(out.root.children) :
         InputFile(j).root.attrib.failures # out.root.children[j].attrib.failures

\* The analyzer exited 0 on the target of marker m.
Succeeded(m) ==
    \E c \in 1..Len(calls) :
        /\ calls[c].tool = "ikos"
        /\ calls[c].args = <<MarkerData(m).bc, DbPath(m)>>
        /\ calls[c].rc = 0

ChildNames(top) == [j \in 1..Len(top.children) |-> top.children[j].attrib.name]

\* C3: the children of the aggregate report are the targets whose analysis
\* succeeded, one child each, in the order the scan returned their markers.
C3_ChildrenInScanOrder ==
    Written =>
        LET good == SelectSeq(marker_files, Succeeded)
        IN  ChildNames(out.root) = [j \in 1..Len(good) |-> BaseName(MarkerData(good[j]).exe)]

\* Three markers, the middle one failed, two children.
C3_Witness ==
    /\ Written
    /\ Len(marker_files) = 3
    /\ ~Succeeded(marker_files[2])
    /\ Len(out.root.children) = 2

\* C4: no path the scan returns has a segment named CMakeFiles.
C4_NoCMakeFilesTargets ==
    \A j \in 1..Len(marker_files) :
        \A s \in 1..Len(marker_files[j].parts) : marker_files[j].parts[s] # CMakeFilesSeg

\* A collected target whose per-target report is missing or malformed.
BadInput == \E j \in 1..Len(ikos_db_files) : InputFile(j).kind # "xml"

\* C5 as stated: once main is over it has returned 0.
C5_AlwaysReturnsZero == pc = "done" => ret = "0"

\* C5 as amended: main returns 0 unless a test report was requested and the
\* report of a successfully analyzed target is missing or malformed, and then
\* it ends with the aggregation's exception.
C5_ReturnsZeroUnlessBadReport ==
    pc = "done" =>
        /\ ret \in {"0", "raised"}
        /\ ret = "raised" <=> (env.xunit_file /\ BadInput)

\* A run in which some analysis failed and another succeeded, and which
\* returns 0 after writing the aggregate.
C5_Witness ==
    /\ pc = "done"
    /\ ret = "0"
    /\ Written
    /\ Len(ikos_db_files) >= 1
    /\ Len(ikos_db_files) < Len(marker_files)

AggregatorCalled ==
    \E c \in 1..Len(calls) : calls[c].tool = "aggregate_junit_xml_files"

\* C6: when a report the aggregator is given is missing or malformed the call
\* raises and nothing is written; a written aggregate holds every target.
C6_NoPartialAggregate ==
    /\ (pc = "done" /\ AggregatorCalled /\ BadInput) => (ret = "raised" /\ ~Written)
    /\ Written => (Len(out.root.children) = Len(ikos_db_files) /\ ~BadInput)

\* The aggregation failed after it had parsed a report.
C6_Witness ==
    /\ ret = "raised"
    /\ Len(agg.children) >= 1
    /\ ~Written

\* C7: when the scan finds no marker, main has returned 0 at once: no tool
\* and no aggregation was run and the output path is as it was.
C7_NoMarkersNoOutput ==
    (pc # "scan" /\ marker_files = <<>>) =>
        /\ pc = "done"
        /\ ret = "0"
        /\ calls = <<>>
        /\ out = env.out0
        /\ agg = IdleAgg

\* Nothing found although both reports were requested and the tree holds
\* marker files below CMakeFiles.
C7_Witness ==
    /\ pc = "done"
    /\ marker_files = <<>>
    /\ env.xunit_file
    /\ env.sarif_file
    /\ GlobMarkers(env.directory, env.tree) # {}

\* C8: markers were found, a test report was requested and every analysis
\* failed: the aggregator ran, main returned 0, and the report written has no
\* children and zero tests, errors, failures and time.
C8_EmptyAggregate ==
    (pc = "done" /\ marker_files # <<>> /\ env.xunit_file /\ ikos_db_files = <<>>) =>
        /\ ret = "0"
        /\ AggregatorCalled
        /\ Written
        /\ out.root.children = <<>>
        /\ out.root.attrib.tests = <<0>>
        /\ out.root.attrib.errors = <<0>>
        /\ out.root.attrib.failures = <<0>>
        /\ out.root.attrib.time = DecimalText(<<0>>, <<0>>)

C8_Witness ==
    /\ pc = "done"
    /\ Len(marker_files) >= 2
    /\ env.xunit_file
    /\ ikos_db_files = <<>>
    /\ Written

IkosCalls == SelectSeq(calls, LAMBDA c : c.tool = "ikos")

\* The position of the last analyzer call before position p, or 0.
LastIkosBefore(p) ==
    IF \E q \in 1..(p - 1) : calls[q].tool = "ikos"
    THEN CHOOSE q \in 1..(p - 1) :
            /\ calls[q].tool = "ikos"
            /\ \A q2 \in (q + 1)..(p - 1) : calls[q2].tool # "ikos"
    ELSE 0

\* C9: the analyzer runs once per marker, in scan order; the report tool runs
\* for a target only between that target's successful analysis and the next
\* analysis; a failed analysis raises nothing and the later markers are
\* still processed.
C9_SequentialInvocation ==
    /\ Len(IkosCalls) <= Len(marker_files)
    /\ \A j \in 1..Len(IkosCalls) :
         IkosCalls[j].args = <<MarkerData(marker_files[j]).bc, DbPath(marker_files[j])>>
    /\ \A p \in 1..Len(calls) :
         calls[p].tool = "ikos-report" =>
            LET q == LastIkosBefore(p)
            IN  /\ q > 0
                /\ calls[q].rc = 0
                /\ calls[p].args[Len(calls[p].args)] = calls[q].args[2]
    /\ pc \in {"output", "agg_loop", "agg_sarif"} => Len(IkosCalls) = Len(marker_files)
    /\ (pc = "done" /\ marker_files # <<>>) => Len(IkosCalls) = Len(marker_files)
    /\ pc \in {"loop", "stdout", "junit", "sarif", "collect", "output"} => ret = "running"

\* The first analysis failed, a later one succeeded and was reported.
C9_Witness ==
    /\ pc = "done"
    /\ Len(IkosCalls) = 3
    /\ IkosCalls[1].rc = 1
    /\ IkosCalls[3].rc = 0
    /\ calls[Len(calls)].tool = "ikos-report"

\* C10: the output file is empty from the moment the aggregation starts
\* until the document is written, so after a failed aggregation the path
\* holds an empty file, whatever it held before.
C10_OutputTruncatedFirst ==
    /\ pc = "agg_loop" => out = Empty
    /\ ret = "raised" => out = Empty

\* The aggregation failed and the earlier content of the output file is gone.
C10_Witness ==
    /\ ret = "raised"
    /\ env.out0 = Old
    /\ out = Empty

====
